---- MODULE Spec2Model ----
(***************************************************************************)
(* Model of flare: the nine diagnostic checks, run concurrently by         *)
(* main (main.go), each goroutine appending its Result to a shared slice,  *)
(* joined by a sync.WaitGroup and then rendered by writeResults.           *)
(***************************************************************************)
EXTENDS Integers, Sequences, FiniteSets, TLC

VARIABLES
    cluster,     \* what the provider (clientset) answers: the cluster snapshot
    pc,          \* main's position: "loop", "wait", "report", "exit", "crashed"
    next,        \* index of the registry entry the dispatch loop is at
    gpc,         \* per goroutine: "idle", "spawned", "called", "read", "ready",
                 \* "appended", "done", "blocked", "panicked"
    ret,         \* per goroutine: <<>> or <<r>>, r the Result fn(clientSet) returned
    snap,        \* per goroutine: the value of resultList it read for append
    resultList,  \* main.go:45
    wg,          \* the WaitGroup counter
    output,      \* the Results handed to writeResults so far, in order
    wrote,       \* what each of those calls of writeResults returned
    overlaps,    \* times a goroutine began while another was executing
    run,         \* number of the run in progress
    prevOutput,  \* the report of the previous run (<<>> in the first run)
    prevRet,     \* the Results the checks returned in the previous run
    chk,         \* the check applied (check-level specification)
    res,         \* its outcome: <<>>, or <<r>>
    authSt,      \* authKubeConfig: its position, its inputs, os.Stderr, its results
    oc           \* overCommit, call by call: its position, its locals, its Result

vars == <<cluster, pc, next, gpc, ret, snap, resultList, wg, output, wrote,
          overlaps, run, prevOutput, prevRet, chk, res, authSt, oc>>

-----------------------------------------------------------------------------
(* Bounds of the model *)

\* times, over the runs modelled, that a goroutine may begin executing while
\* another goroutine is in the middle of its body
MaxOverlaps == 2
\* changes of the cluster while one check runs
MaxChanges == 1
\* objects per listing in the enumerated cluster snapshots
MaxItems == 2
\* nodes, and pods, in the enumerated cluster snapshots
MaxNodes == 2
MaxPods == 2
\* runs of the program against one snapshot
MaxRuns == 2

-----------------------------------------------------------------------------
(* Program constants *)

cronJobThreshold == 100

Range(f) == {f[i] : i \in DOMAIN f}

\* error: <<>> is nil, <<msg>> is an error whose Error() is msg
NilErr == <<>>
\* a nil *FailurePolicyType
NilPolicy == "<nil>"
\* a nil LastTerminationState.Terminated
NilTerm == "<nil>"

checks == <<"cp", "endpoints", "events", "infra", "nodes", "overCommit",
            "webhooks", "cronjob", "oomkilled">>

\* the provider list calls, by the check that issues them
CallSites == {"cp.nodes", "overCommit.nodes", "overCommit.pods",
              "endpoints.endpoints", "webhooks.mutating", "webhooks.validating",
              "events.events", "nodes.nodes", "infra.pods", "cronjob.cronjobs",
              "oomkilled.pods"}

Result(name, pass, details, err) ==
    [Name |-> name, Pass |-> pass, Details |-> details, Err |-> err]

\* the error a provider call at this call site returns (nil when it succeeds)
ListErr(c, site) == IF site \in c.fail THEN <<c.errMsg>> ELSE NilErr

\* a provider call that never returns
Hangs(c, site) == site \in c.hang

-----------------------------------------------------------------------------
(* resource.Quantity, in milli-units *)

\* Quantity.Value(): the quantity rounded up to a whole unit
Value(q) == (q + 999) \div 1000

\* Quantity.String(), decimal SI
QString(q) == IF q % 1000 = 0 THEN ToString(q \div 1000) ELSE ToString(q) \o "m"

-----------------------------------------------------------------------------
(* The checks *)

cp(c) ==
    LET err == ListErr(c, "cp.nodes") IN
    IF err # NilErr
    THEN Result("control plane connectivity", FALSE, "connectivity failure", err)
    ELSE Result("control plane connectivity", TRUE, "", NilErr)

\* Pods("").List with FieldSelector spec.nodeName=n
PodsOnNode(c, n) == SelectSeq(c.pods, LAMBDA p : p.node = n)

RECURSIVE SumLimits(_, _, _)
\* the sum of field f of the limits of every container of pods[i..]
SumLimits(pods, i, f) ==
    IF i > Len(pods) THEN 0
    ELSE LET cs == pods[i].containers
             S[k \in 0..Len(cs)] == IF k = 0 THEN 0 ELSE S[k-1] + cs[k][f]
         IN S[Len(cs)] + SumLimits(pods, i + 1, f)

overCommitNode(c, n) ==
    LET podsList == PodsOnNode(c, n.name)
        cpuLimits == SumLimits(podsList, 1, "cpu")
        memLimits == SumLimits(podsList, 1, "mem")
        cpuInfo == IF Value(cpuLimits) > Value(n.cpuAlloc)
                   THEN "node " \o n.name \o " is overcommited on CPU! Requested: "
                        \o QString(cpuLimits) \o " Allocateable: "
                        \o QString(n.cpuAlloc) \o " \n"
                   ELSE ""
        memInfo == IF Value(memLimits) > Value(n.memAlloc)
                   THEN "node " \o n.name \o " is overcommited on Memory! Requested: "
                        \o QString(memLimits) \o " Allocateable: "
                        \o QString(n.memAlloc) \o "\n"
                   ELSE ""
    IN cpuInfo \o memInfo

RECURSIVE overCommitInfo(_, _)
overCommitInfo(c, i) ==
    IF i > Len(c.nodes) THEN ""
    ELSE overCommitNode(c, c.nodes[i]) \o overCommitInfo(c, i + 1)

overCommit(c) ==
    LET name == "overcommit"
        err == ListErr(c, "overCommit.nodes")
        errPods == ListErr(c, "overCommit.pods")
    IN IF err # NilErr
       THEN Result(name, FALSE, "node(s) overcommitted", err)
       ELSE IF Len(c.nodes) > 0 /\ errPods # NilErr
       THEN Result(name, FALSE, "node(s) overcommitted", errPods)
       ELSE LET info == overCommitInfo(c, 1) IN
            IF info = "" THEN Result(name, TRUE, "", NilErr)
            ELSE Result(name, TRUE, info, err)

RECURSIVE endpointsInfo_BelowTwo(_, _)
endpointsInfo_BelowTwo(c, i) ==
    IF i > Len(c.endpoints) THEN ""
    ELSE (IF c.endpoints[i].subsets < 2
          THEN "Service " \o c.endpoints[i].name \o " has no active endpoints!\n"
          ELSE "") \o endpointsInfo_BelowTwo(c, i + 1)

RECURSIVE endpointsInfo(_, _)
endpointsInfo(c, i) ==
    IF i > Len(c.endpoints) THEN ""
    ELSE (IF c.endpoints[i].subsets < 1
          THEN "Service " \o c.endpoints[i].name \o " has no active endpoints!\n"
          ELSE "") \o endpointsInfo(c, i + 1)

endpoints(c) ==
    LET name == "endpoints"
        err == ListErr(c, "endpoints.endpoints")
    IN IF err # NilErr
       THEN Result(name, FALSE, "getting endpoints", err)
       ELSE LET info == endpointsInfo(c, 1) IN
            IF info = "" THEN Result(name, TRUE, "", NilErr)
            ELSE Result(name, FALSE, info, err)

\* the webhook entries of a listing, configuration by configuration
RECURSIVE Flatten(_, _)
Flatten(confs, i) ==
    IF i > Len(confs) THEN <<>> ELSE confs[i] \o Flatten(confs, i + 1)

RECURSIVE webhooksInfo(_, _, _)
webhooksInfo(hooks, i, kind) ==
    IF i > Len(hooks) THEN ""
    ELSE (IF hooks[i].policy = "Fail"
          THEN kind \o " Webhook: " \o hooks[i].name
               \o " has a failurePolicy set to 'Fail'.\n"
          ELSE "") \o webhooksInfo(hooks, i + 1, kind)

\* *webhook.FailurePolicy dereferences a nil pointer (lines 168, 175)
webhooksPanics(c) ==
    /\ ListErr(c, "webhooks.mutating") = NilErr
    /\ ListErr(c, "webhooks.validating") = NilErr
    /\ \E h \in Range(Flatten(c.mutating, 1) \o Flatten(c.validating, 1)) :
           h.policy = NilPolicy

webhooks(c) ==
    LET name == "webhooks"
        errMutate == ListErr(c, "webhooks.mutating")
        errValidate == ListErr(c, "webhooks.validating")
    IN IF errMutate # NilErr
       THEN Result(name, FALSE, "getting mutatingwebhookconfigurations", errMutate)
       ELSE IF errValidate # NilErr
       THEN Result(name, FALSE, "gettingvalidatingwebhookconfigurations", errValidate)
       ELSE LET info == webhooksInfo(Flatten(c.mutating, 1), 1, "Mutating")
                        \o webhooksInfo(Flatten(c.validating, 1), 1, "Validating")
            IN IF info = "" THEN Result(name, TRUE, "", NilErr)
               ELSE Result(name, FALSE, info, NilErr)

\* the listings webhooks issues, in the order it issues them: the validating
\* listing follows the return of the mutating one without an error
webhooksIssued(c) ==
    IF ListErr(c, "webhooks.mutating") # NilErr \/ Hangs(c, "webhooks.mutating")
    THEN <<"webhooks.mutating">>
    ELSE <<"webhooks.mutating", "webhooks.validating">>

RECURSIVE eventsInfo(_, _)
eventsInfo(c, i) ==
    IF i > Len(c.events) THEN ""
    ELSE LET event == c.events[i] IN
         (IF event.type = "Warning"
          THEN event.ns \o " " \o event.kind \o "/" \o event.name \o " "
               \o event.type \o " " \o event.msg \o "\n"
          ELSE "") \o eventsInfo(c, i + 1)

events_ErrDropped(c) ==
    LET name == "events"
        err == ListErr(c, "events.events")
    IN IF err # NilErr
       THEN Result(name, FALSE, err[1], NilErr)
       ELSE LET info == eventsInfo(c, 1) IN
            IF info = "" THEN Result(name, TRUE, "", NilErr)
            ELSE Result(name, FALSE, info, NilErr)

events(c) ==
    LET name == "events"
        err == ListErr(c, "events.events")
    IN IF err # NilErr
       THEN Result(name, FALSE, err[1], err)
       ELSE LET info == eventsInfo(c, 1) IN
            IF info = "" THEN Result(name, TRUE, "", NilErr)
            ELSE Result(name, FALSE, info, NilErr)

RECURSIVE condsInfo_AnyType(_, _, _)
condsInfo_AnyType(node, conds, k) ==
    IF k > Len(conds) THEN ""
    ELSE (IF conds[k].status = "False"
          THEN "Node: " \o node \o " is NotReady"
          ELSE "") \o condsInfo_AnyType(node, conds, k + 1)

RECURSIVE condsInfo(_, _, _)
condsInfo(node, conds, k) ==
    IF k > Len(conds) THEN ""
    ELSE (IF conds[k].type = "Ready" /\ conds[k].status = "False"
          THEN "Node: " \o node \o " is NotReady"
          ELSE "") \o condsInfo(node, conds, k + 1)

RECURSIVE nodesInfo(_, _)
nodesInfo(c, i) ==
    IF i > Len(c.nodes) THEN ""
    ELSE condsInfo(c.nodes[i].name, c.nodes[i].conds, 1) \o nodesInfo(c, i + 1)

nodes(c) ==
    LET name == "nodes"
        err == ListErr(c, "nodes.nodes")
    IN IF err # NilErr
       THEN Result(name, FALSE, err[1], err)
       ELSE LET info == nodesInfo(c, 1) IN
            IF info # "" THEN Result(name, FALSE, info, err)
            ELSE Result(name, TRUE, "", NilErr)

RECURSIVE statusesInfo(_, _, _)
statusesInfo(pod, sts, k) ==
    IF k > Len(sts) THEN ""
    ELSE (IF sts[k].restarts > 0
          THEN "Container restarts Detected! Pod: " \o pod \o "  container: "
               \o sts[k].name \o "\n"
          ELSE "")
         \o (IF ~sts[k].ready
             THEN "Container 'Not Ready' Detected! Pod: " \o pod
                  \o "  in container: " \o sts[k].name \o "\n"
             ELSE "")
         \o statusesInfo(pod, sts, k + 1)

RECURSIVE infraInfo(_, _)
infraInfo(pods, i) ==
    IF i > Len(pods) THEN ""
    ELSE statusesInfo(pods[i].name, pods[i].statuses, 1) \o infraInfo(pods, i + 1)

\* Pods("kube-system").List
PodsInNamespace(c, ns) == SelectSeq(c.pods, LAMBDA p : p.ns = ns)

infra(c) ==
    LET name == "infra"
        err == ListErr(c, "infra.pods")
    IN IF err # NilErr
       THEN Result(name, FALSE, "failed to get kube-system pods", err)
       ELSE LET info == infraInfo(PodsInNamespace(c, "kube-system"), 1) IN
            IF info = "" THEN Result(name, TRUE, "", NilErr)
            ELSE Result(name, FALSE, info, NilErr)

\* the advisory's leading warning sign is written "Warning:" here
RECURSIVE cronjobInfo(_, _)
cronjobInfo(c, i) ==
    IF i > Len(c.cronjobs) THEN ""
    ELSE LET cron == c.cronjobs[i] IN
         (IF cron.active > cronJobThreshold
          THEN "Cronjob " \o cron.ns \o "/" \o cron.name
               \o ", has too many active jobs: " \o ToString(cron.active) \o "\n"
          ELSE "")
         \o (IF cron.policy = "Allow"
             THEN "Warning: Cronjob " \o cron.name \o ", is set to AllowConcurrent\n"
             ELSE "")
         \o cronjobInfo(c, i + 1)

cronjobPass_AdvisoryFails(c) ==
    \A i \in 1..Len(c.cronjobs) :
        /\ ~(c.cronjobs[i].active > cronJobThreshold)
        /\ c.cronjobs[i].policy # "Allow"

cronjobPass_AtThreshold(c) ==
    \A i \in 1..Len(c.cronjobs) : ~(c.cronjobs[i].active >= cronJobThreshold)

cronjobPass(c) ==
    \A i \in 1..Len(c.cronjobs) : ~(c.cronjobs[i].active > cronJobThreshold)

cronjob_ErrorSwallowed(c) ==
    LET name == "cronjobs"
        err == ListErr(c, "cronjob.cronjobs")
    IN Result(name, cronjobPass(c), cronjobInfo(c, 1), err)

cronjob(c) ==
    LET name == "cronjobs"
        err == ListErr(c, "cronjob.cronjobs")
    IN IF err # NilErr
       THEN Result(name, FALSE, "Failed to get cronjobs", err)
       ELSE Result(name, cronjobPass(c), cronjobInfo(c, 1), err)

RECURSIVE oomStatuses(_, _, _)
oomStatuses(p, sts, k) ==
    IF k > Len(sts) THEN ""
    ELSE (IF sts[k].lastTerm # NilTerm /\ sts[k].lastTerm = "OOMKilled"
          THEN "Pod " \o p.ns \o "/" \o p.name \o " has previous OOMKilled state\n"
          ELSE "") \o oomStatuses(p, sts, k + 1)

RECURSIVE oomInfo(_, _)
oomInfo(c, i) ==
    IF i > Len(c.pods) THEN ""
    ELSE oomStatuses(c.pods[i], c.pods[i].statuses, 1) \o oomInfo(c, i + 1)

oomPass(c) ==
    \A i \in 1..Len(c.pods) : \A k \in 1..Len(c.pods[i].statuses) :
        c.pods[i].statuses[k].lastTerm # "OOMKilled"

oomkilled(c) ==
    LET name == "oomkilled"
        err == ListErr(c, "oomkilled.pods")
    IN IF err # NilErr
       THEN Result(name, FALSE, "Failed to get pods", err)
       ELSE Result(name, oomPass(c), oomInfo(c, 1), err)

-----------------------------------------------------------------------------
(* A check invocation: fn(clientSet) in main.go:52 *)

Fn(name, c) ==
    CASE name = "cp" -> cp(c)
      [] name = "endpoints" -> endpoints(c)
      [] name = "events" -> events(c)
      [] name = "infra" -> infra(c)
      [] name = "nodes" -> nodes(c)
      [] name = "overCommit" -> overCommit(c)
      [] name = "webhooks" -> webhooks(c)
      [] name = "cronjob" -> cronjob(c)
      [] name = "oomkilled" -> oomkilled(c)

\* the check dereferences a nil pointer: only webhooks can
Panics(name, c) == name = "webhooks" /\ webhooksPanics(c)

\* the check issues a provider call that never returns: the calls are issued
\* in program order, and a call is issued only if the calls before it succeeded
Blocks(name, c) ==
    CASE name = "cp" -> Hangs(c, "cp.nodes")
      [] name = "endpoints" -> Hangs(c, "endpoints.endpoints")
      [] name = "events" -> Hangs(c, "events.events")
      [] name = "infra" -> Hangs(c, "infra.pods")
      [] name = "nodes" -> Hangs(c, "nodes.nodes")
      [] name = "overCommit" ->
            \/ Hangs(c, "overCommit.nodes")
            \/ /\ ListErr(c, "overCommit.nodes") = NilErr
               /\ Len(c.nodes) > 0
               /\ Hangs(c, "overCommit.pods")
      [] name = "webhooks" ->
            \/ Hangs(c, "webhooks.mutating")
            \/ /\ ListErr(c, "webhooks.mutating") = NilErr
               /\ Hangs(c, "webhooks.validating")
      [] name = "cronjob" -> Hangs(c, "cronjob.cronjobs")
      [] name = "oomkilled" -> Hangs(c, "oomkilled.pods")

\* the zero Result
ZeroResult == Result("", FALSE, "", NilErr)

\* how the invocation ends: it returns a Result, panics, or never returns
Call(name, c) ==
    IF Blocks(name, c) THEN [kind |-> "blocked", r |-> ZeroResult]
    ELSE IF Panics(name, c) THEN [kind |-> "panic", r |-> ZeroResult]
    ELSE [kind |-> "result", r |-> Fn(name, c)]

-----------------------------------------------------------------------------
(* The cluster snapshots the provider is enumerated over *)

Seqs(S, n) == UNION {[1..k -> S] : k \in 0..n}

Node(name, conds, cpu, mem) ==
    [name |-> name, conds |-> conds, cpuAlloc |-> cpu, memAlloc |-> mem]
Cond(type, status) == [type |-> type, status |-> status]
Container(cpu, mem) == [cpu |-> cpu, mem |-> mem]
Status(name, restarts, ready, lastTerm) ==
    [name |-> name, restarts |-> restarts, ready |-> ready, lastTerm |-> lastTerm]
Pod(ns, name, node, containers, statuses) ==
    [ns |-> ns, name |-> name, node |-> node, containers |-> containers,
     statuses |-> statuses]

BaseCluster ==
    [fail |-> {}, hang |-> {}, errMsg |-> "timeout",
     nodes |-> <<Node("n1", <<Cond("Ready", "True")>>, 4000, 8000)>>,
     pods |-> <<Pod("kube-system", "p1", "n1", <<Container(1000, 1000)>>,
                    <<Status("c1", 0, TRUE, NilTerm)>>)>>,
     endpoints |-> <<[name |-> "svc1", subsets |-> 1]>>,
     mutating |-> <<>>,
     validating |-> <<>>,
     events |-> <<>>,
     cronjobs |-> <<>>]

CondLists ==
    {<<>>, <<Cond("Ready", "True")>>, <<Cond("Ready", "False")>>,
     <<Cond("ready", "False")>>, <<Cond("Ready", "false")>>,
     <<Cond("MemoryPressure", "False"), Cond("Ready", "False")>>}

ReadinessNodes ==
    {Node(n, cl, 4000, 8000) : n \in {"n1", "n2"}, cl \in CondLists}

CapacityNodes ==
    {Node("n1", <<>>, cpu, 4000) : cpu \in {3920, 4000}}
    \cup {Node("n2", <<>>, 4000, 4000)}

ContainerLists ==
    {<<Container(3000, 0)>>, <<Container(1975, 0)>>,
     <<Container(0, 4001)>>, <<Container(2000, 2000), Container(2000, 2000)>>}

LimitPods ==
    {Pod("default", "p1", n, cs, <<>>) : n \in {"n1", "n2"}, cs \in ContainerLists}

StatusLists ==
    {<<>>} \cup
    {<<Status("c1", rc, rdy, NilTerm)>> : rc \in {0, 1}, rdy \in BOOLEAN}
    \cup {<<Status("c1", 0, TRUE, lt)>> : lt \in {"OOMKilled", "Error"}}

StatusPods ==
    {Pod(ns, "p1", "n1", <<>>, sl) :
        ns \in {"kube-system", "default"}, sl \in StatusLists}

EndpointsObjects == [name : {"svc1", "svc2"}, subsets : {0, 1, 2}]

Webhooks == [name : {"h1"}, policy : {"Fail", "Ignore", "fail", NilPolicy}]

\* listings of webhook configurations: none, one, or two configurations
WebhookListings ==
    {<<>>} \cup {<<hs>> : hs \in Seqs(Webhooks, MaxItems)}
    \cup {<<<<h>>, <<h>>>> : h \in Webhooks}

Events ==
    [ns : {"default"}, kind : {"Pod"}, name : {"p1"},
     type : {"Warning", "Normal", "warning"}, msg : {"", "BackOff"}]

CronJobs ==
    [ns : {"default"}, name : {"cj1"}, active : {0, 50, 60, 100, 101},
     policy : {"Allow", "Forbid"}]

ErrMsgs == {"", "timeout"}

\* the snapshots each check is enumerated over: its own listings and the
\* failures of its own provider calls vary, the rest is as in BaseCluster
FailureClusters ==
    {[BaseCluster EXCEPT !.fail = f, !.errMsg = m] :
        f \in SUBSET CallSites, m \in ErrMsgs}
HangClusters ==
    {[BaseCluster EXCEPT !.hang = {s}, !.fail = f] :
        s \in CallSites, f \in {{}, {"overCommit.nodes"}, {"webhooks.mutating"}}}
ReadinessClusters ==
    {[BaseCluster EXCEPT !.nodes = ns] : ns \in Seqs(ReadinessNodes, MaxNodes)}
CapacityClusters ==
    {[BaseCluster EXCEPT !.nodes = ns, !.pods = ps] :
        ns \in Seqs(CapacityNodes, MaxNodes), ps \in Seqs(LimitPods, MaxPods)}
    \cup {[BaseCluster EXCEPT !.nodes = ns, !.fail = {"overCommit.pods"}] :
             ns \in Seqs(CapacityNodes, MaxNodes)}
StatusClusters ==
    {[BaseCluster EXCEPT !.pods = ps] : ps \in Seqs(StatusPods, MaxPods)}
EndpointsClusters ==
    {[BaseCluster EXCEPT !.endpoints = es] : es \in Seqs(EndpointsObjects, MaxItems)}
WebhookClusters ==
    {[BaseCluster EXCEPT !.mutating = m, !.validating = v] :
        m \in WebhookListings, v \in WebhookListings}
    \cup {[BaseCluster EXCEPT !.mutating = m, !.fail = {"webhooks.validating"}] :
             m \in WebhookListings}
EventClusters ==
    {[BaseCluster EXCEPT !.events = es] : es \in Seqs(Events, MaxItems)}
CronJobClusters ==
    {[BaseCluster EXCEPT !.cronjobs = cs] : cs \in Seqs(CronJobs, MaxItems)}

CheckClusters ==
    FailureClusters \cup HangClusters \cup ReadinessClusters
    \cup CapacityClusters \cup StatusClusters \cup EndpointsClusters
    \cup WebhookClusters \cup EventClusters \cup CronJobClusters

-----------------------------------------------------------------------------
(* The checks applied one at a time to an enumerated snapshot *)

N == Len(checks)
Tasks == 1..N

RunnerInit ==
    /\ pc = "loop"
    /\ next = 1
    /\ gpc = [i \in Tasks |-> "idle"]
    /\ ret = [i \in Tasks |-> <<>>]
    /\ snap = [i \in Tasks |-> <<>>]
    /\ resultList = <<>>
    /\ wg = 0
    /\ output = <<>>
    /\ wrote = <<>>
    /\ overlaps = 0
    /\ run = 1
    /\ prevOutput = <<>>
    /\ prevRet = [i \in Tasks |-> <<>>]

runnerVars == <<pc, next, gpc, ret, snap, resultList, wg, output, wrote, overlaps,
                run, prevOutput, prevRet>>

-----------------------------------------------------------------------------
(* authKubeConfig (main.go:65-89; the earlier auth, main.go:417-438, is the *)
(* same but for restoring os.Stderr by assignment instead of defer)         *)

\* what the kubeconfig path names
PathKinds == {"valid", "partial", "missing", "emptyfile", ""}

\* clientcmd.BuildConfigFromFlags("", path) returns an error: a missing file
\* always does; an empty file or an empty path yields no configuration, and
\* client-go then uses the in-cluster configuration if the process has one
BuildConfigFails(path, inCluster) ==
    \/ path = "missing"
    \/ path \in {"emptyfile", ""} /\ ~inCluster

\* the state of authKubeConfig when it is called
AuthStart(path, inCluster, devNullOpens, clientFails) ==
    [pc |-> "start", path |-> path, inCluster |-> inCluster,
     devNullOpens |-> devNullOpens, clientFails |-> clientFails,
     stderr |-> "stderr", config |-> FALSE, cs |-> "nil", err |-> NilErr]

\* main.go:69-74: os.Stderr is saved and replaced by the opened /dev/null
\* (by a nil file if that cannot be opened)
AuthSilence ==
    /\ authSt.pc = "start"
    /\ authSt' = [authSt EXCEPT
                    !.pc = "silenced",
                    !.stderr = IF authSt.devNullOpens THEN "devnull" ELSE "nil"]
    /\ UNCHANGED <<cluster, runnerVars, chk, res, oc>>

AuthBuildConfig_ErrorIgnored ==
    /\ authSt.pc = "silenced"
    /\ authSt' = [authSt EXCEPT !.pc = "built", !.config = TRUE]
    /\ UNCHANGED <<cluster, runnerVars, chk, res, oc>>

\* main.go:76-81: the config is built, or the error returned with os.Stderr
\* put back
AuthBuildConfig ==
    /\ authSt.pc = "silenced"
    /\ authSt' =
         IF BuildConfigFails(authSt.path, authSt.inCluster)
         THEN [authSt EXCEPT !.pc = "returned", !.stderr = "stderr",
                             !.cs = "nil", !.err = <<"errBuildConf">>]
         ELSE [authSt EXCEPT !.pc = "built", !.config = TRUE]
    /\ UNCHANGED <<cluster, runnerVars, chk, res, oc>>

\* main.go:82-88: the clientset is made from the config and returned, or the
\* error returned; os.Stderr is put back on both paths
AuthNewClient ==
    /\ authSt.pc = "built"
    /\ authSt' =
         IF authSt.clientFails
         THEN [authSt EXCEPT !.pc = "returned", !.stderr = "stderr",
                             !.cs = "nil", !.err = <<"errClient">>]
         ELSE [authSt EXCEPT !.pc = "returned", !.stderr = "stderr",
                             !.cs = "clientset", !.err = NilErr]
    /\ UNCHANGED <<cluster, runnerVars, chk, res, oc>>

\* main.go:40: the checks run with the clientset a successful auth returned
AuthReturned ==
    [AuthStart("valid", FALSE, TRUE, FALSE) EXCEPT
        !.pc = "returned", !.config = TRUE, !.cs = "clientset"]

-----------------------------------------------------------------------------
(* overCommit call by call (lines 47-105), against a cluster that other    *)
(* clients change while the check runs                                     *)

\* the cluster states of this specification: two nodes of 4 CPU, a pod pA
\* with a CPU limit of 5 and a pod pB with a CPU limit of 2, each absent or
\* on either node
OcNodes == <<Node("n1", <<>>, 4000, 4000), Node("n2", <<>>, 4000, 4000)>>
OcPods(name, cpu) ==
    {<<>>} \cup {<<Pod("default", name, n, <<Container(cpu, 0)>>, <<>>)>> :
                    n \in {"n1", "n2"}}
OcClusters ==
    {[BaseCluster EXCEPT !.nodes = ns, !.pods = a \o b] :
        ns \in {SubSeq(OcNodes, 1, 1), OcNodes, <<OcNodes[2], OcNodes[1]>>},
        a \in OcPods("pA", 5000), b \in OcPods("pB", 2000)}
    \cup {[BaseCluster EXCEPT !.nodes = OcNodes, !.fail = {s}] :
             s \in {"overCommit.nodes", "overCommit.pods"}}

\* overCommit before it is called, and at its first statement
OcIdle ==
    [pc |-> "idle", nodes |-> <<>>, i |-> 1, info |-> "", result |-> ZeroResult,
     seen |-> {}, from |-> <<>>, changes |-> 0]
OcStart(c) == [OcIdle EXCEPT !.pc = "start", !.seen = {c}]

\* lines 51-59: the node listing
OcListNodes ==
    LET err == ListErr(cluster, "overCommit.nodes") IN
    /\ oc.pc = "start"
    /\ oc' = IF err # NilErr
             THEN [oc EXCEPT !.pc = "returned",
                             !.result = Result("overcommit", FALSE,
                                               "node(s) overcommitted", err)]
             ELSE [oc EXCEPT !.pc = "loop", !.nodes = cluster.nodes]
    /\ UNCHANGED <<cluster, runnerVars, chk, res, authSt>>

OcListPods_NoFieldSelector ==
    LET err == ListErr(cluster, "overCommit.pods")
        n == oc.nodes[oc.i]
        all == [cluster EXCEPT
                  !.pods = [k \in DOMAIN @ |-> [@[k] EXCEPT !.node = n.name]]]
    IN
    /\ oc.pc = "loop"
    /\ oc.i <= Len(oc.nodes)
    /\ oc' = IF err # NilErr
             THEN [oc EXCEPT !.pc = "returned",
                             !.result = Result("overcommit", FALSE,
                                               "node(s) overcommitted", err)]
             ELSE [oc EXCEPT !.info = @ \o overCommitNode(all, n),
                             !.from = Append(@, cluster),
                             !.i = @ + 1]
    /\ UNCHANGED <<cluster, runnerVars, chk, res, authSt>>

\* lines 60-91, one iteration: the pods of node n are listed, their limits
\* summed and compared with what the node listing said of n
OcListPods ==
    LET err == ListErr(cluster, "overCommit.pods")
        n == oc.nodes[oc.i]
    IN
    /\ oc.pc = "loop"
    /\ oc.i <= Len(oc.nodes)
    /\ oc' = IF err # NilErr
             THEN [oc EXCEPT !.pc = "returned",
                             !.result = Result("overcommit", FALSE,
                                               "node(s) overcommitted", err)]
             ELSE [oc EXCEPT !.info = @ \o overCommitNode(cluster, n),
                             !.from = Append(@, cluster),
                             !.i = @ + 1]
    /\ UNCHANGED <<cluster, runnerVars, chk, res, authSt>>

\* lines 93-104: the loop is over (err is nil here)
OcReturn ==
    /\ oc.pc = "loop"
    /\ oc.i > Len(oc.nodes)
    /\ oc' = [oc EXCEPT
                !.pc = "returned",
                !.result = IF oc.info = ""
                           THEN Result("overcommit", TRUE, "", NilErr)
                           ELSE Result("overcommit", TRUE, oc.info, NilErr)]
    /\ UNCHANGED <<cluster, runnerVars, chk, res, authSt>>

\* another client changes the cluster between two calls of the check
ClusterChanges ==
    /\ oc.pc \in {"start", "loop"}
    /\ oc.changes < MaxChanges
    /\ \E c \in OcClusters \ {cluster} :
           /\ cluster' = c
           /\ oc' = [oc EXCEPT !.seen = @ \cup {c}, !.changes = @ + 1]
    /\ UNCHANGED <<runnerVars, chk, res, authSt>>

InitOverCommit ==
    /\ cluster \in OcClusters
    /\ chk = ""
    /\ res = <<>>
    /\ RunnerInit
    /\ authSt = AuthReturned
    /\ oc = OcStart(cluster)

NextOverCommit ==
    \/ OcListNodes
    \/ OcListPods
    \/ OcReturn
    \/ ClusterChanges

SpecOverCommit == InitOverCommit /\ [][NextOverCommit]_vars

-----------------------------------------------------------------------------
(* The checks, each applied to a snapshot *)

InitChecks ==
    /\ cluster \in CheckClusters
    /\ chk = ""
    /\ res = <<>>
    /\ RunnerInit
    /\ authSt = AuthReturned
    /\ oc = OcIdle

Apply(name) ==
    /\ chk = ""
    /\ chk' = name
    /\ res' = <<Call(name, cluster)>>
    /\ UNCHANGED <<cluster, runnerVars, authSt, oc>>

ApplyCp == Apply("cp")
ApplyEndpoints == Apply("endpoints")
ApplyEvents == Apply("events")
ApplyInfra == Apply("infra")
ApplyNodes == Apply("nodes")
ApplyOverCommit == Apply("overCommit")
ApplyWebhooks == Apply("webhooks")
ApplyCronjob == Apply("cronjob")
ApplyOomkilled == Apply("oomkilled")

NextChecks ==
    \/ ApplyCp
    \/ ApplyEndpoints
    \/ ApplyEvents
    \/ ApplyInfra
    \/ ApplyNodes
    \/ ApplyOverCommit
    \/ ApplyWebhooks
    \/ ApplyCronjob
    \/ ApplyOomkilled

SpecChecks == InitChecks /\ [][NextChecks]_vars

\* the Result the applied check returned, if it returned
Returned == res # <<>> /\ res[1].kind = "result"

-----------------------------------------------------------------------------
(* main: the dispatch loop, the goroutines, the join and the report *)

\* the snapshots a whole run is enumerated over
RunClusters ==
    {BaseCluster}
    \cup {[BaseCluster EXCEPT !.fail = {s}] :
            s \in {"cp.nodes", "overCommit.pods", "webhooks.validating"}}
    \cup {[BaseCluster EXCEPT !.fail = CallSites, !.errMsg = ""]}
    \cup {[BaseCluster EXCEPT !.mutating = <<<<[name |-> "h1", policy |-> p]>>>>] :
            p \in {"Fail", NilPolicy}}
    \cup {[BaseCluster EXCEPT !.hang = {s}] : s \in {"cp.nodes", "oomkilled.pods"}}

Init ==
    /\ cluster \in RunClusters
    /\ chk = ""
    /\ res = <<>>
    /\ RunnerInit
    /\ authSt = AuthReturned
    /\ oc = OcIdle

\* a goroutine that has begun executing its body and has not finished it
Running(i) == gpc[i] \in {"called", "read", "ready", "appended"}

Overlapping == \E j \in Tasks : Running(j)

\* the scheduler lets goroutine i begin: goroutines begin in dispatch order,
\* and at most MaxOverlaps times while another one is executing
Start(i) ==
    /\ gpc[i] = "spawned"
    /\ \A j \in 1..(i - 1) : gpc[j] # "spawned"
    /\ Overlapping => overlaps < MaxOverlaps
    /\ overlaps' = IF Overlapping THEN overlaps + 1 ELSE overlaps

\* main.go:48-55, one iteration: wg.Add(1); go func() {...}()
Dispatch ==
    /\ pc = "loop"
    /\ next <= N
    /\ wg' = wg + 1
    /\ gpc' = [gpc EXCEPT ![next] = "spawned"]
    /\ next' = next + 1
    /\ pc' = IF next = N THEN "wait" ELSE "loop"
    /\ UNCHANGED <<overlaps, cluster, ret, snap, resultList, output, wrote, run, prevOutput,
                   prevRet, chk, res, authSt, oc>>

Invoke_DeletesPods(i, to) ==
    LET o == Call(checks[i], cluster) IN
    /\ pc \in {"loop", "wait"}
    /\ IF o.kind = "panic"
       THEN /\ pc' = "crashed"
            /\ gpc' = [gpc EXCEPT ![i] = "panicked"]
            /\ UNCHANGED ret
       ELSE IF o.kind = "blocked"
       THEN /\ gpc' = [gpc EXCEPT ![i] = "blocked"]
            /\ UNCHANGED <<pc, ret>>
       ELSE /\ gpc' = [gpc EXCEPT ![i] = to]
            /\ ret' = [ret EXCEPT ![i] = <<o.r>>]
            /\ UNCHANGED pc
    /\ cluster' = [cluster EXCEPT !.pods = <<>>]
    /\ UNCHANGED <<next, snap, resultList, wg, output, wrote, run,
                   prevOutput, prevRet, chk, res, authSt, oc>>

Invoke_SharedLoopVariable(i, to) ==
    LET o == Call(checks[IF next > N THEN N ELSE next], cluster) IN
    /\ pc \in {"loop", "wait"}
    /\ IF o.kind = "panic"
       THEN /\ pc' = "crashed"
            /\ gpc' = [gpc EXCEPT ![i] = "panicked"]
            /\ UNCHANGED ret
       ELSE IF o.kind = "blocked"
       THEN /\ gpc' = [gpc EXCEPT ![i] = "blocked"]
            /\ UNCHANGED <<pc, ret>>
       ELSE /\ gpc' = [gpc EXCEPT ![i] = to]
            /\ ret' = [ret EXCEPT ![i] = <<o.r>>]
            /\ UNCHANGED pc
    /\ UNCHANGED <<cluster, next, snap, resultList, wg, output, wrote, run,
                   prevOutput, prevRet, chk, res, authSt, oc>>

\* fn(clientSet) in goroutine i, fn being the registry entry of the iteration
\* that started the goroutine (fn := *check); `to` is its phase on return
Invoke(i, to) ==
    LET o == Call(checks[i], cluster) IN
    /\ pc \in {"loop", "wait"}
    /\ IF o.kind = "panic"
       THEN /\ pc' = "crashed"
            /\ gpc' = [gpc EXCEPT ![i] = "panicked"]
            /\ UNCHANGED ret
       ELSE IF o.kind = "blocked"
       THEN /\ gpc' = [gpc EXCEPT ![i] = "blocked"]
            /\ UNCHANGED <<pc, ret>>
       ELSE /\ gpc' = [gpc EXCEPT ![i] = to]
            /\ ret' = [ret EXCEPT ![i] = <<o.r>>]
            /\ UNCHANGED pc
    /\ UNCHANGED <<cluster, next, snap, resultList, wg, output, wrote, run,
                   prevOutput, prevRet, chk, res, authSt, oc>>

\* the operand resultList of append is read, in goroutine i
Load(i, to) ==
    /\ pc \in {"loop", "wait"}
    /\ snap' = [snap EXCEPT ![i] = resultList]
    /\ gpc' = [gpc EXCEPT ![i] = to]
    /\ UNCHANGED <<cluster, pc, next, ret, resultList, wg, output, wrote, run,
                   prevOutput, prevRet, chk, res, authSt, oc>>

\* main.go:52: the two operands of append are evaluated in either order
CallFirst(i) == Start(i) /\ Invoke(i, "called")
LoadAfter(i) == gpc[i] = "called" /\ Load(i, "ready") /\ UNCHANGED overlaps
LoadFirst(i) == Start(i) /\ Load(i, "read")
CallAfter(i) == gpc[i] = "read" /\ Invoke(i, "ready") /\ UNCHANGED overlaps

\* main.go:52: resultList = append(<the value read>, <the Result returned>)
Store(i) ==
    /\ pc \in {"loop", "wait"}
    /\ gpc[i] = "ready"
    /\ resultList' = Append(snap[i], ret[i][1])
    /\ gpc' = [gpc EXCEPT ![i] = "appended"]
    /\ UNCHANGED <<overlaps, cluster, pc, next, ret, snap, wg, output, wrote, run, prevOutput,
                   prevRet, chk, res, authSt, oc>>

\* main.go:53: wg.Done()
Done(i) ==
    /\ pc \in {"loop", "wait"}
    /\ gpc[i] = "appended"
    /\ wg' = wg - 1
    /\ gpc' = [gpc EXCEPT ![i] = "done"]
    /\ UNCHANGED <<overlaps, cluster, pc, next, ret, snap, resultList, output, wrote, run,
                   prevOutput, prevRet, chk, res, authSt, oc>>

Wait_OneOutstanding ==
    /\ pc = "wait"
    /\ wg <= 1
    /\ pc' = "report"
    /\ UNCHANGED <<overlaps, cluster, next, gpc, ret, snap, resultList, wg,
                   output, wrote, run, prevOutput, prevRet, chk, res, authSt, oc>>

\* main.go:56: wg.Wait() returns
Wait ==
    /\ pc = "wait"
    /\ wg = 0
    /\ pc' = "report"
    /\ UNCHANGED <<overlaps, cluster, next, gpc, ret, snap, resultList, wg, output, wrote, run,
                   prevOutput, prevRet, chk, res, authSt, oc>>

\* the bufio.Writer has met a write error: it keeps it, and accepts no more data
BufErr == \E k \in DOMAIN wrote : ~wrote[k]

\* main.go:103-131: what writeResults returns, given whether the Writer holds
\* an error and whether the sink (os.Stdout) takes the flushed line
writeResults(bufErr, sinkOk) ==
    IF bufErr THEN FALSE
    ELSE IF ~sinkOk THEN FALSE
    ELSE TRUE

Report_StopsOnFailure ==
    /\ pc = "report"
    /\ Len(output) < Len(resultList)
    /\ \E sinkOk \in BOOLEAN :
         /\ wrote' = Append(wrote, writeResults(BufErr, sinkOk))
         /\ pc' = IF writeResults(BufErr, sinkOk) THEN pc ELSE "exit"
    /\ output' = Append(output, resultList[Len(output) + 1])
    /\ UNCHANGED <<overlaps, cluster, next, gpc, ret, snap, resultList, wg, run,
                   prevOutput, prevRet, chk, res, authSt, oc>>

\* main.go:58-60, one iteration: writeResults(output, result), its return
\* value dropped
Report ==
    /\ pc = "report"
    /\ Len(output) < Len(resultList)
    /\ \E sinkOk \in BOOLEAN :
         wrote' = Append(wrote, writeResults(BufErr, sinkOk))
    /\ output' = Append(output, resultList[Len(output) + 1])
    /\ UNCHANGED <<overlaps, cluster, pc, next, gpc, ret, snap, resultList, wg, run,
                   prevOutput, prevRet, chk, res, authSt, oc>>

\* main returns
Exit ==
    /\ pc = "report"
    /\ Len(output) = Len(resultList)
    /\ pc' = "exit"
    /\ UNCHANGED <<overlaps, cluster, next, gpc, ret, snap, resultList, wg, output, wrote, run,
                   prevOutput, prevRet, chk, res, authSt, oc>>

Next ==
    \/ Dispatch
    \/ \E i \in Tasks : CallFirst(i)
    \/ \E i \in Tasks : LoadAfter(i)
    \/ \E i \in Tasks : LoadFirst(i)
    \/ \E i \in Tasks : CallAfter(i)
    \/ \E i \in Tasks : Store(i)
    \/ \E i \in Tasks : Done(i)
    \/ Wait
    \/ Report
    \/ Exit

Spec == Init /\ [][Next]_vars

\* the steps of main, and of goroutine i
Main == Dispatch \/ Wait \/ Report \/ Exit
Task(i) ==
    CallFirst(i) \/ LoadAfter(i) \/ LoadFirst(i) \/ CallAfter(i) \/ Store(i)
    \/ Done(i)

InitLive ==
    /\ cluster \in {c \in RunClusters : c.fail = {}}
    /\ chk = ""
    /\ res = <<>>
    /\ RunnerInit
    /\ authSt = AuthReturned
    /\ oc = OcIdle

\* the Go scheduler runs every goroutine that stays runnable
FairSpec ==
    /\ InitLive
    /\ [][Next]_vars
    /\ WF_vars(Main)
    /\ \A i \in Tasks : WF_vars(Task(i))

\* the program is started again on the same snapshot
Rerun ==
    /\ pc = "exit"
    /\ run < MaxRuns
    /\ run' = run + 1
    /\ prevOutput' = output
    /\ prevRet' = ret
    /\ pc' = "loop"
    /\ next' = 1
    /\ gpc' = [i \in Tasks |-> "idle"]
    /\ ret' = [i \in Tasks |-> <<>>]
    /\ snap' = [i \in Tasks |-> <<>>]
    /\ resultList' = <<>>
    /\ wg' = 0
    /\ output' = <<>>
    /\ wrote' = <<>>
    /\ UNCHANGED <<cluster, overlaps, chk, res, authSt, oc>>

InitRuns ==
    /\ cluster = BaseCluster
    /\ chk = ""
    /\ res = <<>>
    /\ RunnerInit
    /\ authSt = AuthReturned
    /\ oc = OcIdle

NextRuns == Next \/ Rerun

SpecRuns == InitRuns /\ [][NextRuns]_vars

-----------------------------------------------------------------------------
(* Properties of a run *)

Joined == pc \in {"report", "exit"}

\* the error of the provider call that makes the check give up: the first
\* failing call among those the check issues, nil if none fails
CallErr(name, c) ==
    CASE name = "cp" -> ListErr(c, "cp.nodes")
      [] name = "endpoints" -> ListErr(c, "endpoints.endpoints")
      [] name = "events" -> ListErr(c, "events.events")
      [] name = "infra" -> ListErr(c, "infra.pods")
      [] name = "nodes" -> ListErr(c, "nodes.nodes")
      [] name = "overCommit" ->
            IF ListErr(c, "overCommit.nodes") # NilErr
            THEN ListErr(c, "overCommit.nodes")
            ELSE IF Len(c.nodes) > 0 THEN ListErr(c, "overCommit.pods")
            ELSE NilErr
      [] name = "webhooks" ->
            IF ListErr(c, "webhooks.mutating") # NilErr
            THEN ListErr(c, "webhooks.mutating")
            ELSE ListErr(c, "webhooks.validating")
      [] name = "cronjob" -> ListErr(c, "cronjob.cronjobs")
      [] name = "oomkilled" -> ListErr(c, "oomkilled.pods")

\* C1: once wg.Wait() has returned, resultList holds exactly one Result for
\* each registered check, none lost and none duplicated, in every interleaving.
C1_ExactlyOneResultPerCheck ==
    Joined =>
        \A i \in Tasks :
            Cardinality({k \in DOMAIN resultList : resultList[k] = ret[i][1]}) = 1

\* C2: the read-append-write of resultList is one synchronized hand-off: no
\* goroutine has read resultList for its append while another goroutine's
\* append, already read, is not yet written back.
C2_AppendNotInterleaved ==
    \A i, j \in Tasks :
        gpc[i] \in {"read", "ready"} /\ gpc[j] \in {"read", "ready"} => i = j

\* C3: whichever checks fail internally, the number of Results collected by a
\* run equals the number of registered checks.
C3_CountEqualsRegistry ==
    /\ Joined => Len(resultList) = N
    /\ pc = "exit" => Len(output) = N

\* C4: a check whose provider call fails does not end the run: it returns a
\* Result with Pass == false and Err the provider's error, and the Results of
\* the other checks are still collected.
C4_ProviderFailureConverted ==
    \A i \in Tasks :
        CallErr(checks[i], cluster) # NilErr =>
            /\ ~Panics(checks[i], cluster)
            /\ gpc[i] # "panicked"
            /\ ret[i] # <<>> =>
                   ~ret[i][1].Pass /\ ret[i][1].Err = CallErr(checks[i], cluster)

C4_ProviderFailureContained ==
    /\ C4_ProviderFailureConverted
    /\ \A i \in Tasks :
           CallErr(checks[i], cluster) # NilErr /\ Joined =>
               \A j \in Tasks \ {i} : ret[j][1] \in Range(resultList)

\* C5: a fault inside one check's goroutine leaves the run going: main is not
\* terminated, so the join can complete and the other Results be reported.
C5_FaultContained ==
    \A i \in Tasks :
        gpc[i] = "panicked" => pc \in {"loop", "wait", "report", "exit"}

\* C6: the join is a barrier: no Result is handed to writeResults, and main is
\* not past wg.Wait(), before every dispatched goroutine has completed.
C6_JoinIsBarrier ==
    Joined \/ Len(output) > 0 =>
        /\ next = N + 1
        /\ \A i \in Tasks : gpc[i] = "done"

\* a report line is written in a run in which goroutines overlapped
C6_Witness ==
    /\ pc = "report"
    /\ Len(output) > 0
    /\ overlaps > 0

\* C7: under fair scheduling, if every provider call returns, the run
\* eventually passes the join and writes the whole report.
C7_EventuallyReports ==
    cluster.hang = {} => <>(pc = "exit")

\* C8: for a fixed snapshot the order of the check names in the report is the
\* same in every run.
C8_ReportOrderDeterministic ==
    run > 1 /\ pc = "exit" =>
        [k \in DOMAIN output |-> output[k].Name]
            = [k \in DOMAIN prevOutput |-> prevOutput[k].Name]

\* C9: two runs against the same snapshot yield identical Result sets.
C9_RunsYieldSameResults ==
    run > 1 /\ pc = "exit" => Range(output) = Range(prevOutput)

-----------------------------------------------------------------------------
\* C10: every Result a check returns with Pass == false has a non-empty
\* Details or a non-nil Err.
C10_FailureExplained ==
    Returned /\ ~res[1].r.Pass => res[1].r.Details # "" \/ res[1].r.Err # NilErr

\* a provider error with an empty message: events reports Pass == false with
\* empty Details, explained by Err alone
C10_Witness ==
    /\ Returned
    /\ chk = "events"
    /\ ~res[1].r.Pass
    /\ res[1].r.Details = ""
    /\ res[1].r.Err # NilErr

-----------------------------------------------------------------------------
(* Properties of the checks *)

\* the Result the applied check returned
R == res[1].r

Contains(s, sub) ==
    \E i \in 1..(Len(s) - Len(sub) + 1) : SubSeq(s, i, i + Len(sub) - 1) = sub

\* the summed limits of the containers of the pods on node n
CpuLimitsOn(c, n) == SumLimits(PodsOnNode(c, n.name), 1, "cpu")
MemLimitsOn(c, n) == SumLimits(PodsOnNode(c, n.name), 1, "mem")

\* a summed limit of the pods on node n exceeds the node's allocatable value
OverCommitted(c, n) ==
    CpuLimitsOn(c, n) > n.cpuAlloc \/ MemLimitsOn(c, n) > n.memAlloc

\* C12: overcommit, all provider calls succeeding: if some node's summed CPU
\* or memory limits exceed its allocatable value, Pass == false and Details
\* names the node with the summed limit and the allocatable value; if no node
\* is over, Pass == true and Details == "".
C12_OverCommitFlagged ==
    Returned /\ chk = "overCommit" /\ CallErr(chk, cluster) = NilErr =>
        IF \E n \in Range(cluster.nodes) : OverCommitted(cluster, n)
        THEN /\ ~R.Pass
             /\ \A n \in Range(cluster.nodes) :
                    /\ CpuLimitsOn(cluster, n) > n.cpuAlloc =>
                           /\ Contains(R.Details, n.name)
                           /\ Contains(R.Details, QString(CpuLimitsOn(cluster, n)))
                           /\ Contains(R.Details, QString(n.cpuAlloc))
                    /\ MemLimitsOn(cluster, n) > n.memAlloc =>
                           /\ Contains(R.Details, n.name)
                           /\ Contains(R.Details, QString(MemLimitsOn(cluster, n)))
                           /\ Contains(R.Details, QString(n.memAlloc))
        ELSE R.Pass /\ R.Details = ""

RECURSIVE TotalActive(_, _)
\* the active runs of the jobs crons[i..], summed
TotalActive(crons, i) ==
    IF i > Len(crons) THEN 0 ELSE crons[i].active + TotalActive(crons, i + 1)

\* the largest number of active runs any one job has
MostActive(crons) ==
    IF crons = <<>> THEN 0
    ELSE CHOOSE m \in {crons[i].active : i \in DOMAIN crons} :
             \A i \in DOMAIN crons : crons[i].active <= m

CronjobListed == Returned /\ chk = "cronjob" /\ CallErr(chk, cluster) = NilErr

\* C13 as stated: Pass == false exactly when the number of active runs, summed
\* over the jobs however they are distributed, exceeds 100.
C13_TotalActiveOverThreshold ==
    CronjobListed => (~R.Pass <=> TotalActive(cluster.cronjobs, 1) > 100)

\* C13 amended: Pass == false exactly when some one job has more than 100
\* active runs: a job with exactly 100 passes, a job with 101 fails.
C13_JobActiveOverThreshold ==
    CronjobListed => (~R.Pass <=> MostActive(cluster.cronjobs) >= 101)

\* a job at the threshold next to a job one over it: the check fails
C13_Witness ==
    /\ CronjobListed
    /\ {cluster.cronjobs[i].active : i \in DOMAIN cluster.cronjobs} = {100, 101}
    /\ ~R.Pass

\* the snapshot with the concurrency policy of job i replaced by Forbid
WithForbid(c, i) == [c EXCEPT !.cronjobs[i].policy = "Forbid"]

\* C14: a job whose concurrency policy is AllowConcurrent adds a non-empty
\* advisory to Details and leaves Pass as it is for the same listing with
\* that job's policy replaced by a non-overlapping one.
C14_AdvisoryKeepsPass ==
    CronjobListed =>
        \A i \in DOMAIN cluster.cronjobs :
            cluster.cronjobs[i].policy = "Allow" =>
                /\ R.Details # ""
                /\ Len(R.Details) > Len(cronjob(WithForbid(cluster, i)).Details)
                /\ R.Pass = cronjob(WithForbid(cluster, i)).Pass

\* 50 active runs under AllowConcurrent: Pass == true with an advisory
C14_Witness ==
    /\ CronjobListed
    /\ Len(cluster.cronjobs) = 1
    /\ cluster.cronjobs[1].active = 50
    /\ cluster.cronjobs[1].policy = "Allow"
    /\ R.Pass
    /\ R.Details # ""

\* the endpoints objects without subsets, in listing order
WithoutSubsets(c) == SelectSeq(c.endpoints, LAMBDA e : e.subsets = 0)

RECURSIVE EndpointFindings(_, _)
\* one finding for each of es[i..], by name
EndpointFindings(es, i) ==
    IF i > Len(es) THEN ""
    ELSE "Service " \o es[i].name \o " has no active endpoints!\n"
         \o EndpointFindings(es, i + 1)

EndpointsListed ==
    Returned /\ chk = "endpoints" /\ CallErr(chk, cluster) = NilErr

\* C15: endpoints, listing succeeding: Details is one finding for each
\* endpoints object with zero subsets, by name and in listing order, and none
\* for the others; Pass == true exactly when no object has zero subsets.
C15_EndpointsFlagged ==
    EndpointsListed =>
        /\ R.Details = EndpointFindings(WithoutSubsets(cluster), 1)
        /\ R.Pass <=> WithoutSubsets(cluster) = <<>>

\* an object with a subset, then one without: only the second is flagged
C15_Witness ==
    /\ EndpointsListed
    /\ Len(cluster.endpoints) = 2
    /\ cluster.endpoints[1] = [name |-> "svc1", subsets |-> 1]
    /\ cluster.endpoints[2] = [name |-> "svc2", subsets |-> 0]
    /\ ~R.Pass
    /\ Contains(R.Details, "svc2")
    /\ ~Contains(R.Details, "svc1")

\* the node has a condition of type exactly "Ready" and status exactly "False"
NotReady(n) ==
    \E k \in DOMAIN n.conds : n.conds[k].type = "Ready" /\ n.conds[k].status = "False"

NodesListed == Returned /\ chk = "nodes" /\ CallErr(chk, cluster) = NilErr

\* C16: nodes, listing succeeding: a node is flagged by name exactly when it
\* has a condition of type exactly "Ready" and status exactly "False";
\* Pass == false exactly when at least one node is flagged.
C16_NotReadyNodesFlagged ==
    NodesListed =>
        /\ \A name \in {n.name : n \in Range(cluster.nodes)} :
               Contains(R.Details, "Node: " \o name \o " is NotReady")
                   <=> \E n \in Range(cluster.nodes) : n.name = name /\ NotReady(n)
        /\ ~R.Pass <=> \E n \in Range(cluster.nodes) : NotReady(n)
        /\ R.Pass => R.Details = ""

\* a node whose Ready status is "False", then one whose is "True"
C16_Witness ==
    /\ NodesListed
    /\ Len(cluster.nodes) = 2
    /\ cluster.nodes[1].name = "n1"
    /\ cluster.nodes[1].conds = <<Cond("Ready", "False")>>
    /\ cluster.nodes[2].name = "n2"
    /\ cluster.nodes[2].conds = <<Cond("Ready", "True")>>
    /\ ~R.Pass
    /\ Contains(R.Details, "n1")
    /\ ~Contains(R.Details, "n2")

-----------------------------------------------------------------------------
(* Properties of the report and of the dispatch *)

\* C17: a failing write of one Result does not end the report loop: every
\* Result of resultList is handed to writeResults, in order, whatever the
\* earlier calls returned.
C17_ReportAttemptsAll ==
    /\ Len(wrote) = Len(output)
    /\ output = SubSeq(resultList, 1, Len(output))
    /\ pc = "exit" => output = resultList

\* the write of the first Result failed and the loop went on to the last one
C17_Witness ==
    /\ pc = "exit"
    /\ Len(output) = N
    /\ ~wrote[1]

\* the Name each registered check gives its Result
ResultName(name) ==
    CASE name = "cp" -> "control plane connectivity"
      [] name = "endpoints" -> "endpoints"
      [] name = "events" -> "events"
      [] name = "infra" -> "infra"
      [] name = "nodes" -> "nodes"
      [] name = "overCommit" -> "overcommit"
      [] name = "webhooks" -> "webhooks"
      [] name = "cronjob" -> "cronjobs"
      [] name = "oomkilled" -> "oomkilled"

\* C18: the goroutine of iteration i runs the i-th registry entry, once: the
\* Result it obtains is that check's, and at the join every registered check
\* has been run by exactly one goroutine.
C18_EachCheckRunOnce ==
    /\ \A i \in Tasks : ret[i] # <<>> => ret[i][1].Name = ResultName(checks[i])
    /\ \A i \in Tasks : ret[i] # <<>> => gpc[i] \notin {"idle", "spawned"}
    /\ Joined =>
           \A k \in Tasks :
               Cardinality({i \in Tasks : ret[i] # <<>>
                              /\ ret[i][1].Name = ResultName(checks[k])}) = 1

\* the join is passed after goroutines ran while the loop was still dispatching
C18_Witness ==
    /\ pc = "report"
    /\ overlaps > 0
    /\ \A i \in Tasks : ret[i] # <<>>

\* C19: a run is read-only: the checks issue list calls only, on the success
\* and on the error paths, so no step of a run changes the cluster.
C19_ClusterReadOnly == [][cluster' = cluster]_vars

\* a run in which every provider call failed has ended
C19_Witness ==
    /\ pc = "exit"
    /\ cluster.fail = CallSites

-----------------------------------------------------------------------------
(* authKubeConfig run on its own *)

InitAuth ==
    /\ cluster = BaseCluster
    /\ oc = OcIdle
    /\ chk = ""
    /\ res = <<>>
    /\ RunnerInit
    /\ authSt \in {AuthStart(p, ic, dn, cf) :
                     p \in PathKinds, ic \in BOOLEAN, dn \in BOOLEAN,
                     cf \in BOOLEAN}

NextAuth ==
    \/ AuthSilence
    \/ AuthBuildConfig
    \/ AuthNewClient

SpecAuth == InitAuth /\ [][NextAuth]_vars

AuthDone == authSt.pc = "returned"

-----------------------------------------------------------------------------
\* the finding overCommit writes for node n and a resource
CpuFinding(c, n) ==
    "node " \o n.name \o " is overcommited on CPU! Requested: "
    \o QString(CpuLimitsOn(c, n)) \o " Allocateable: " \o QString(n.cpuAlloc)
MemFinding(c, n) ==
    "node " \o n.name \o " is overcommited on Memory! Requested: "
    \o QString(MemLimitsOn(c, n)) \o " Allocateable: " \o QString(n.memAlloc)

\* C22: overcommit, all provider calls succeeding: a node is flagged for a
\* resource exactly when the exact sum of the declared limits is strictly
\* greater than the exact allocatable quantity, fractional quantities
\* (3950m against 3920m) included; equal quantities are not flagged.
C22_ExactComparison ==
    Returned /\ chk = "overCommit" /\ CallErr(chk, cluster) = NilErr =>
        \A n \in Range(cluster.nodes) :
            /\ Contains(R.Details, CpuFinding(cluster, n))
                   <=> CpuLimitsOn(cluster, n) > n.cpuAlloc
            /\ Contains(R.Details, MemFinding(cluster, n))
                   <=> MemLimitsOn(cluster, n) > n.memAlloc

-----------------------------------------------------------------------------
\* the number of occurrences of sub in the string s
Occurrences(s, sub) ==
    Cardinality({i \in 1..(Len(s) - Len(sub) + 1) :
                    SubSeq(s, i, i + Len(sub) - 1) = sub})

\* the entries of a listing whose failure policy is exactly "Fail"
FailEntries(confs) ==
    LET hooks == Flatten(confs, 1) IN
    Cardinality({i \in DOMAIN hooks : hooks[i].policy = "Fail"})

\* C23: webhooks, no listing hanging: the mutating listing is issued before
\* the validating one; if the mutating listing fails the validating one is not
\* issued and the Result is Pass == false with Err set; if the validating
\* listing fails the mutating data is discarded and the Result is Pass == false
\* with Err set; if both succeed, Pass == false exactly when some entry of
\* either listing has failure policy exactly "Fail", one finding per entry.
C23_WebhooksListingsAndFindings ==
    /\ chk = "webhooks"
    /\ res # <<>>
    /\ ~Hangs(cluster, "webhooks.mutating")
    /\ ~Hangs(cluster, "webhooks.validating")
    => LET issued == webhooksIssued(cluster)
           errMutate == ListErr(cluster, "webhooks.mutating")
           errValidate == ListErr(cluster, "webhooks.validating")
           fails == FailEntries(cluster.mutating) + FailEntries(cluster.validating)
       IN /\ issued[1] = "webhooks.mutating"
          /\ errMutate # NilErr =>
                 /\ issued = <<"webhooks.mutating">>
                 /\ Returned /\ ~R.Pass /\ R.Err = errMutate
          /\ errMutate = NilErr /\ errValidate # NilErr =>
                 /\ issued = <<"webhooks.mutating", "webhooks.validating">>
                 /\ Returned /\ ~R.Pass /\ R.Err = errValidate
                 /\ ~Contains(R.Details, "Webhook: ")
          /\ errMutate = NilErr /\ errValidate = NilErr =>
                 /\ Returned
                 /\ R.Err = NilErr
                 /\ ~R.Pass <=> fails > 0
                 /\ Occurrences(R.Details, "has a failurePolicy set to 'Fail'.\n")
                        = fails
                 /\ Occurrences(R.Details, "Mutating Webhook: ")
                        = FailEntries(cluster.mutating)
                 /\ Occurrences(R.Details, "Validating Webhook: ")
                        = FailEntries(cluster.validating)

-----------------------------------------------------------------------------
OcReturned == oc.pc = "returned"

RECURSIVE OcComposite(_, _, _)
\* the findings for nodes[i..], each node judged on the pods of the cluster
\* state its own pod listing was answered from
OcComposite(ns, states, i) ==
    IF i > Len(ns) THEN ""
    ELSE overCommitNode(states[i], ns[i]) \o OcComposite(ns, states, i + 1)

\* C21: overcommit is not a transactional view: the node listing and each
\* per-node pod listing are separate calls, each answered from the cluster
\* state of its own moment; when the cluster is unchanged for the whole check
\* the verdict is the verdict for that one state, and a verdict that matches no
\* state that existed during the run is made of the answers of several states.
C21_VerdictOfOneStateWhenUnchanged ==
    OcReturned =>
        /\ oc.changes = 0 => oc.result = overCommit(cluster)
        /\ (\A s \in oc.seen : oc.result # overCommit(s)) =>
               /\ oc.changes > 0
               /\ oc.result.Err = NilErr
               /\ Range(oc.from) \subseteq oc.seen
               /\ oc.result.Details = OcComposite(oc.nodes, oc.from, 1)

\* a node is over its CPU in every state that existed during the run, and the
\* check, its two pod listings answered from different states, flags none
C21_Witness ==
    /\ OcReturned
    /\ oc.changes > 0
    /\ oc.result.Err = NilErr
    /\ oc.result.Details = ""
    /\ \A s \in oc.seen : \E n \in Range(s.nodes) : OverCommitted(s, n)
    /\ \A s \in oc.seen : oc.result # overCommit(s)

====
